---- MODULE Spec2Model ----
(***************************************************************************)
(* The Solitaire rule engine of phaser-3-solitaire-tutorial (src/lib):     *)
(* Card, Deck, FoundationPile and the Solitaire coordinator, as a state    *)
(* machine whose actions are the public methods of Solitaire.              *)
(*                                                                         *)
(* The deck is scaled: the first NumSuits suits (the source has 4), card   *)
(* values 1..MaxValue (the source has 13, the King), NumPiles tableau      *)
(* piles (the source has 7), and Math.random() yields one of RandGrain     *)
(* evenly spaced values of [0, 1).                                         *)
(***************************************************************************)
EXTENDS Integers, Sequences, FiniteSets, TLC

\* ------------------------------------------------------------------ bounds
\* number of suits in play; the source has the 4 of CARD_SUIT
NumSuits == 3
\* highest card value; the source's literal 13 (King, foundation cap)
MaxValue == 2
\* number of tableau piles; the source's literal 7
NumPiles == 2
\* Math.random() is one of k / RandGrain, k in 0 .. RandGrain - 1
RandGrain == 1

\* ------------------------------------------------------------ common.ts
\* the suit enumeration, in the order Object.values(CARD_SUIT) yields it
CARD_SUIT == SubSeq(<<"SPADE", "CLUB", "HEART", "DIAMOND">>, 1, NumSuits)

Suits == {CARD_SUIT[k] : k \in 1..Len(CARD_SUIT)}

CARD_SUIT_TO_COLOR(suit) ==
    CASE suit = "SPADE" -> "BLACK"
      [] suit = "CLUB" -> "BLACK"
      [] suit = "HEART" -> "RED"
      [] suit = "DIAMOND" -> "RED"

\* ---------------------------------------------------------------- card.ts
\* Deck.#createDeck: for each suit, values 1 .. MaxValue, pushed in order.
\* A card object is named by its 0-based index in Deck.#cards.
createDeck ==
    [k \in 1..(Len(CARD_SUIT) * MaxValue) |->
        [suit |-> CARD_SUIT[((k - 1) \div MaxValue) + 1],
         value |-> ((k - 1) % MaxValue) + 1]]

NumCards == Len(createDeck)
Cards == 0..(NumCards - 1)

suit(c) == createDeck[c + 1].suit
value(c) == createDeck[c + 1].value
color(c) == CARD_SUIT_TO_COLOR(suit(c))

\* Card.flip applied to card c of the face map f
flip(f, c) == [f EXCEPT ![c] = ~ f[c]]

\* --------------------------------------------------------------- utils.ts
\* a slip: the partner is drawn from 0..i, as Math.random() * (i + 1) would
randomIndex_upToI(i, grain) == {(k * (i + 1)) \div grain : k \in 0..(grain - 1)}

\* Math.floor(Math.random() * i), Math.random() being k / grain
randomIndex(i, grain) == {(k * i) \div grain : k \in 0..(grain - 1)}

\* array (1-based here) with the elements at 0-based indices a and b swapped
swap(array, a, b) ==
    [array EXCEPT ![a + 1] = array[b + 1], ![b + 1] = array[a + 1]]

RECURSIVE shuffleLoop(_, _, _)
\* the loop of shuffleArray from index i downwards: every array it can leave
shuffleLoop(array, i, grain) ==
    IF i > 0
    THEN UNION {shuffleLoop(swap(array, i, j), i - 1, grain) :
                    j \in randomIndex(i, grain)}
    ELSE {array}

shuffleArray(array, grain) == shuffleLoop(array, Len(array) - 1, grain)

\* ----------------------------------------------------- foundation-pile.ts
\* a slip: the cap at the King is left out
addCard_noCap(v) == v + 1

\* FoundationPile.addCard on a pile of value v
addCard(v) == IF v = MaxValue THEN v ELSE v + 1

\* ----------------------------------------------------------------- state
VARIABLES
    drawPile,       \* Deck.#drawPile, front first
    discardPile,    \* Deck.#discardPile, top last
    tableauPiles,   \* Solitaire.#tableauPiles, pile p at tableauPiles[p + 1]
    foundation,     \* suit -> FoundationPile.#currentValue
    faceUp,         \* card -> Card.#faceUp
    call,           \* the last method called and what it returned
    phase,          \* what has been called since construction
    lastReset,      \* the Deck as Deck.reset left it, when the last call reset it
    tableauContainers   \* GameScene.#tableauContainers: per tableau pile, the
                        \* card game objects of its container, first added first

vars == <<drawPile, discardPile, tableauPiles, foundation, faceUp, call, phase,
          lastReset, tableauContainers>>

\* ---------------------------------------------------------------- deck.ts
\* Deck.shuffle of a draw pile holding [...this.#cards]: what it can leave
shuffle == shuffleArray([k \in 1..NumCards |-> k - 1], RandGrain)

\* Deck.reset with the cards' faces being f: the Deck states it can leave
reset(f) ==
    {[drawPile |-> d, discardPile |-> <<>>, faceUp |-> f] : d \in shuffle}

RECURSIVE shuffleInDiscardPile_keepsFaces(_, _, _)
\* a slip: the cards are put back without card.flip()
shuffleInDiscardPile_keepsFaces(draw, discard, f) ==
    IF discard = <<>>
    THEN [draw |-> draw, face |-> f]
    ELSE shuffleInDiscardPile_keepsFaces(Append(draw, Head(discard)),
                                         Tail(discard), f)

RECURSIVE shuffleInDiscardPile_fromTop(_, _, _)
\* a slip: the discard cards are taken from the top (pop), last card first
shuffleInDiscardPile_fromTop(draw, discard, f) ==
    IF discard = <<>>
    THEN [draw |-> draw, face |-> f]
    ELSE shuffleInDiscardPile_fromTop(
             Append(draw, discard[Len(discard)]),
             SubSeq(discard, 1, Len(discard) - 1),
             flip(f, discard[Len(discard)]))

\* Deck.shuffleInDiscardPile: flip every discard card, append it to drawPile
RECURSIVE shuffleInDiscardPile(_, _, _)
shuffleInDiscardPile(draw, discard, f) ==
    IF discard = <<>>
    THEN [draw |-> draw, face |-> f]
    ELSE shuffleInDiscardPile(Append(draw, Head(discard)), Tail(discard),
                              flip(f, Head(discard)))

\* ----------------------------------------------------------- solitaire.ts
\* a slip: shift for pop, the card at the other end is removed
pop_removesFirst(array) == SubSeq(array, 2, Len(array))

\* a slip: the played card is left on the pile it came from
pop_keepsCard(array) == array

\* Array.pop as the play methods use it: the array without its last element
pop(array) == SubSeq(array, 1, Len(array) - 1)

\* a slip: every round of the deal starts at pile 0
firstPile_zero(i) == 0

\* a slip: let j = i + 1
firstPile_next(i) == i + 1

\* the pile the round i of the deal starts at (let j = i)
firstPile(i) == i

emptyTableau == [p \in 1..NumPiles |-> <<>>]

\* this.#tableauPiles[index]: the pile, or undefined
pileDefined(index) == index \in 0..(NumPiles - 1)

RECURSIVE deal_drawsFromEnd(_, _, _)
\* a slip: the cards are taken from the end of drawPile (pop for shift)
deal_drawsFromEnd(st, i, j) ==
    IF i >= NumPiles THEN st
    ELSE IF j >= NumPiles THEN deal_drawsFromEnd(st, i + 1, firstPile(i + 1))
    ELSE IF st.draw = <<>> THEN [st EXCEPT !.thrown = TRUE]
    ELSE LET card == st.draw[Len(st.draw)] IN
         deal_drawsFromEnd(
             [draw |-> SubSeq(st.draw, 1, Len(st.draw) - 1),
              face |-> IF j = i THEN flip(st.face, card) ELSE st.face,
              tab |-> [st.tab EXCEPT ![j + 1] = Append(@, card)],
              thrown |-> FALSE], i, j + 1)

RECURSIVE deal(_, _, _)
\* the two nested loops of newGame from round i, pile j on
deal(st, i, j) ==
    IF i >= NumPiles THEN st
    ELSE IF j >= NumPiles THEN deal(st, i + 1, firstPile(i + 1))
    ELSE IF st.draw = <<>> THEN [st EXCEPT !.thrown = TRUE]
    ELSE LET card == Head(st.draw) IN
         deal([draw |-> Tail(st.draw),
               face |-> IF j = i THEN flip(st.face, card) ELSE st.face,
               tab |-> [st.tab EXCEPT ![j + 1] = Append(@, card)],
               thrown |-> FALSE], i, j + 1)

\* a slip: the case of a suit is missing from the switch
foundationCases_noHeart == {"CLUB", "SPADE", "DIAMOND"}

\* the suits the switch of #addCardToFoundation and of
\* #isValidMoveToAddCardToFoundation has a case for
foundationCases == {"CLUB", "SPADE", "HEART", "DIAMOND"}

\* the switch on card.suit falls to its default arm, exhaustiveGuard throws
exhaustiveGuard(card) == suit(card) \notin foundationCases

\* a slip: any higher card of the suit is accepted
isValidMoveToAddCardToFoundation_skipsRanks(card) ==
    value(card) >= foundation[suit(card)] + 1

\* #isValidMoveToAddCardToFoundation
isValidMoveToAddCardToFoundation(card) ==
    value(card) = foundation[suit(card)] + 1

\* #addCardToFoundation: the foundation values after it
addCardToFoundation(card) ==
    [foundation EXCEPT ![suit(card)] = addCard(@)]

\* a slip: the colour check is left out
isValidMoveToAddCardToTableau_anyColor(card, tableauPile) ==
    IF Len(tableauPile) = 0
    THEN value(card) = MaxValue
    ELSE LET lastTableauCard == tableauPile[Len(tableauPile)] IN
         IF value(lastTableauCard) = 1 THEN FALSE
         ELSE IF value(lastTableauCard) # value(card) + 1 THEN FALSE
         ELSE TRUE

\* a slip: an empty pile accepts any card
isValidMoveToAddCardToTableau_anyOnEmpty(card, tableauPile) ==
    IF Len(tableauPile) = 0
    THEN TRUE
    ELSE LET lastTableauCard == tableauPile[Len(tableauPile)] IN
         IF value(lastTableauCard) = 1 THEN FALSE
         ELSE IF color(lastTableauCard) = color(card) THEN FALSE
         ELSE IF value(lastTableauCard) # value(card) + 1 THEN FALSE
         ELSE TRUE

\* #isValidMoveToAddCardToTableau
isValidMoveToAddCardToTableau(card, tableauPile) ==
    IF Len(tableauPile) = 0
    THEN value(card) = MaxValue
    ELSE LET lastTableauCard == tableauPile[Len(tableauPile)] IN
         IF value(lastTableauCard) = 1 THEN FALSE
         ELSE IF color(lastTableauCard) = color(card) THEN FALSE
         ELSE IF value(lastTableauCard) # value(card) + 1 THEN FALSE
         ELSE TRUE

\* a slip: the club pile is tested twice and the heart pile never
wonGame_missesHeart == \A s \in Suits \ {"HEART"} : foundation[s] = MaxValue

\* a slip: one complete foundation is taken for a win
wonGame_anyFoundation == \E s \in Suits : foundation[s] = MaxValue

\* get wonGame: every foundation pile's value is the King's
wonGame == \A s \in Suits : foundation[s] = MaxValue

\* what the call of a method other than newGame does to phase
played == IF phase = "constructed" THEN "played" ELSE phase

returned(op, ok) == [op |-> op, ret |-> IF ok THEN "true" ELSE "false"]

\* new Solitaire(): Deck creates the cards face-down and resets
Init ==
    \E deck \in reset([c \in Cards |-> FALSE]) :
        /\ drawPile = deck.drawPile
        /\ discardPile = deck.discardPile
        /\ faceUp = deck.faceUp
        /\ lastReset = <<deck>>
        /\ tableauContainers = <<>>
        /\ tableauPiles = emptyTableau
        /\ foundation = [s \in Suits |-> 0]
        /\ call = [op |-> "constructor", ret |-> "void"]
        /\ phase = "constructed"

newGame ==
    \E deck \in reset(faceUp) :
      \E st \in {deal([draw |-> deck.drawPile, face |-> deck.faceUp,
                       tab |-> emptyTableau, thrown |-> FALSE],
                      0, firstPile(0))} :
        /\ lastReset' = <<deck>>
        /\ UNCHANGED tableauContainers
        /\ drawPile' = st.draw
        /\ discardPile' = deck.discardPile
        /\ tableauPiles' = st.tab
        /\ foundation' = [s \in Suits |-> 0]
        /\ faceUp' = st.face
        /\ call' = [op |-> "newGame",
                    ret |-> IF st.thrown THEN "throws" ELSE "void"]
        /\ phase' = IF phase = "constructed" THEN "firstGame" ELSE "laterGame"

\* a slip: the front card is read (drawPile[0]) but not taken off drawPile
drawCard_peeks ==
    /\ IF drawPile = <<>>
       THEN /\ call' = returned("drawCard", FALSE)
            /\ UNCHANGED <<drawPile, discardPile, faceUp>>
       ELSE LET card == Head(drawPile) IN
            /\ drawPile' = drawPile
            /\ faceUp' = flip(faceUp, card)
            /\ discardPile' = Append(discardPile, card)
            /\ call' = returned("drawCard", TRUE)
    /\ phase' = played
    /\ lastReset' = <<>>
    /\ UNCHANGED tableauContainers
    /\ UNCHANGED <<tableauPiles, foundation>>

drawCard ==
    /\ IF drawPile = <<>>
       THEN /\ call' = returned("drawCard", FALSE)
            /\ UNCHANGED <<drawPile, discardPile, faceUp>>
       ELSE LET card == Head(drawPile) IN
            /\ drawPile' = Tail(drawPile)
            /\ faceUp' = flip(faceUp, card)
            /\ discardPile' = Append(discardPile, card)
            /\ call' = returned("drawCard", TRUE)
    /\ phase' = played
    /\ lastReset' = <<>>
    /\ UNCHANGED tableauContainers
    /\ UNCHANGED <<tableauPiles, foundation>>

\* a slip: recycling an empty discard pile is refused
shuffleDiscardPile_needsDiscards ==
    /\ IF Len(drawPile) # 0 \/ Len(discardPile) = 0
       THEN /\ call' = returned("shuffleDiscardPile", FALSE)
            /\ UNCHANGED <<drawPile, discardPile, faceUp>>
       ELSE \E st \in {shuffleInDiscardPile(drawPile, discardPile, faceUp)} :
            /\ drawPile' = st.draw
            /\ faceUp' = st.face
            /\ discardPile' = <<>>
            /\ call' = returned("shuffleDiscardPile", TRUE)
    /\ phase' = played
    /\ lastReset' = <<>>
    /\ UNCHANGED tableauContainers
    /\ UNCHANGED <<tableauPiles, foundation>>

shuffleDiscardPile ==
    /\ IF Len(drawPile) # 0
       THEN /\ call' = returned("shuffleDiscardPile", FALSE)
            /\ UNCHANGED <<drawPile, discardPile, faceUp>>
       ELSE \E st \in {shuffleInDiscardPile(drawPile, discardPile, faceUp)} :
            /\ drawPile' = st.draw
            /\ faceUp' = st.face
            /\ discardPile' = <<>>
            /\ call' = returned("shuffleDiscardPile", TRUE)
    /\ phase' = played
    /\ lastReset' = <<>>
    /\ UNCHANGED tableauContainers
    /\ UNCHANGED <<tableauPiles, foundation>>

playDiscardPileCardToFoundation ==
    /\ IF Len(discardPile) = 0
       THEN /\ call' = returned("playDiscardPileCardToFoundation", FALSE)
            /\ UNCHANGED <<discardPile, foundation>>
       ELSE LET card == discardPile[Len(discardPile)] IN
            IF ~ isValidMoveToAddCardToFoundation(card)
            THEN /\ call' = returned("playDiscardPileCardToFoundation", FALSE)
                 /\ UNCHANGED <<discardPile, foundation>>
            ELSE /\ foundation' = addCardToFoundation(card)
                 /\ discardPile' = pop(discardPile)
                 /\ call' = returned("playDiscardPileCardToFoundation", TRUE)
    /\ phase' = played
    /\ lastReset' = <<>>
    /\ UNCHANGED tableauContainers
    /\ UNCHANGED <<drawPile, tableauPiles, faceUp>>

playDiscardPileCardToTableau(targetTableauIndex) ==
    /\ IF Len(discardPile) = 0 \/ ~ pileDefined(targetTableauIndex)
       THEN /\ call' = returned("playDiscardPileCardToTableau", FALSE)
            /\ UNCHANGED <<discardPile, tableauPiles>>
       ELSE LET card == discardPile[Len(discardPile)]
                targetTableauPile == tableauPiles[targetTableauIndex + 1]
            IN IF ~ isValidMoveToAddCardToTableau(card, targetTableauPile)
               THEN /\ call' = returned("playDiscardPileCardToTableau", FALSE)
                    /\ UNCHANGED <<discardPile, tableauPiles>>
               ELSE /\ tableauPiles' =
                         [tableauPiles EXCEPT ![targetTableauIndex + 1] =
                                                  Append(@, card)]
                    /\ discardPile' = pop(discardPile)
                    /\ call' = returned("playDiscardPileCardToTableau", TRUE)
    /\ phase' = played
    /\ lastReset' = <<>>
    /\ UNCHANGED tableauContainers
    /\ UNCHANGED <<drawPile, foundation, faceUp>>

\* a slip: the check that the card is face-down is left out
flipTopTableauCard_flipsAnyTop(tableauIndex) ==
    /\ IF ~ pileDefined(tableauIndex)
       THEN /\ call' = returned("flipTopTableauCard", FALSE)
            /\ UNCHANGED faceUp
       ELSE LET tableauPile == tableauPiles[tableauIndex + 1] IN
            IF Len(tableauPile) = 0
            THEN /\ call' = returned("flipTopTableauCard", FALSE)
                 /\ UNCHANGED faceUp
            ELSE LET card == tableauPile[Len(tableauPile)] IN
                 /\ faceUp' = flip(faceUp, card)
                 /\ call' = returned("flipTopTableauCard", TRUE)
    /\ phase' = played
    /\ lastReset' = <<>>
    /\ UNCHANGED tableauContainers
    /\ UNCHANGED <<drawPile, discardPile, tableauPiles, foundation>>

\* a slip: the pile is used without the check for undefined, a TypeError
flipTopTableauCard_unguarded(tableauIndex) ==
    /\ IF ~ pileDefined(tableauIndex)
       THEN /\ call' = [op |-> "flipTopTableauCard", ret |-> "throws"]
            /\ UNCHANGED faceUp
       ELSE LET tableauPile == tableauPiles[tableauIndex + 1] IN
            IF Len(tableauPile) = 0
            THEN /\ call' = returned("flipTopTableauCard", FALSE)
                 /\ UNCHANGED faceUp
            ELSE LET card == tableauPile[Len(tableauPile)] IN
                 IF faceUp[card]
                 THEN /\ call' = returned("flipTopTableauCard", FALSE)
                      /\ UNCHANGED faceUp
                 ELSE /\ faceUp' = flip(faceUp, card)
                      /\ call' = returned("flipTopTableauCard", TRUE)
    /\ phase' = played
    /\ lastReset' = <<>>
    /\ UNCHANGED tableauContainers
    /\ UNCHANGED <<drawPile, discardPile, tableauPiles, foundation>>

flipTopTableauCard(tableauIndex) ==
    /\ IF ~ pileDefined(tableauIndex)
       THEN /\ call' = returned("flipTopTableauCard", FALSE)
            /\ UNCHANGED faceUp
       ELSE LET tableauPile == tableauPiles[tableauIndex + 1] IN
            IF Len(tableauPile) = 0
            THEN /\ call' = returned("flipTopTableauCard", FALSE)
                 /\ UNCHANGED faceUp
            ELSE LET card == tableauPile[Len(tableauPile)] IN
                 IF faceUp[card]
                 THEN /\ call' = returned("flipTopTableauCard", FALSE)
                      /\ UNCHANGED faceUp
                 ELSE /\ faceUp' = flip(faceUp, card)
                      /\ call' = returned("flipTopTableauCard", TRUE)
    /\ phase' = played
    /\ lastReset' = <<>>
    /\ UNCHANGED tableauContainers
    /\ UNCHANGED <<drawPile, discardPile, tableauPiles, foundation>>

\* a slip: splice(cardIndex, 1), only the card at cardIndex is moved
moveTableauCardsToAnotherTableau_movesOneCard(initialTableauIndex, cardIndex, targetTableauIndex) ==
    /\ IF ~ pileDefined(initialTableauIndex) \/ ~ pileDefined(targetTableauIndex)
       THEN /\ call' = returned("moveTableauCardsToAnotherTableau", FALSE)
            /\ UNCHANGED tableauPiles
       ELSE LET initialTableauPile == tableauPiles[initialTableauIndex + 1]
                targetTableauPile == tableauPiles[targetTableauIndex + 1]
            IN IF cardIndex \notin 0..(Len(initialTableauPile) - 1)
               THEN /\ call' = returned("moveTableauCardsToAnotherTableau", FALSE)
                    /\ UNCHANGED tableauPiles
               ELSE LET card == initialTableauPile[cardIndex + 1] IN
                    IF \/ ~ faceUp[card]
                       \/ ~ isValidMoveToAddCardToTableau(card, targetTableauPile)
                    THEN /\ call' = returned("moveTableauCardsToAnotherTableau",
                                             FALSE)
                         /\ UNCHANGED tableauPiles
                    ELSE LET cardsToMove == <<card>>
                             spliced == [tableauPiles EXCEPT
                                 ![initialTableauIndex + 1] =
                                     SubSeq(initialTableauPile, 1, cardIndex)
                                     \o SubSeq(initialTableauPile, cardIndex + 2,
                                               Len(initialTableauPile))]
                         IN /\ tableauPiles' =
                                  [spliced EXCEPT ![targetTableauIndex + 1] =
                                                      @ \o cardsToMove]
                            /\ call' = returned("moveTableauCardsToAnotherTableau",
                                                TRUE)
    /\ phase' = played
    /\ lastReset' = <<>>
    /\ UNCHANGED tableauContainers
    /\ UNCHANGED <<drawPile, discardPile, foundation, faceUp>>

\* a slip: the test of card.isFaceUp is inverted
moveTableauCardsToAnotherTableau_movesOnlyHidden(initialTableauIndex, cardIndex, targetTableauIndex) ==
    /\ IF ~ pileDefined(initialTableauIndex) \/ ~ pileDefined(targetTableauIndex)
       THEN /\ call' = returned("moveTableauCardsToAnotherTableau", FALSE)
            /\ UNCHANGED tableauPiles
       ELSE LET initialTableauPile == tableauPiles[initialTableauIndex + 1]
                targetTableauPile == tableauPiles[targetTableauIndex + 1]
            IN IF cardIndex \notin 0..(Len(initialTableauPile) - 1)
               THEN /\ call' = returned("moveTableauCardsToAnotherTableau", FALSE)
                    /\ UNCHANGED tableauPiles
               ELSE LET card == initialTableauPile[cardIndex + 1] IN
                    IF \/ faceUp[card]
                       \/ ~ isValidMoveToAddCardToTableau(card, targetTableauPile)
                    THEN /\ call' = returned("moveTableauCardsToAnotherTableau",
                                             FALSE)
                         /\ UNCHANGED tableauPiles
                    ELSE LET cardsToMove ==
                                 SubSeq(initialTableauPile, cardIndex + 1,
                                        Len(initialTableauPile))
                             spliced == [tableauPiles EXCEPT
                                 ![initialTableauIndex + 1] =
                                     SubSeq(initialTableauPile, 1, cardIndex)]
                         IN /\ tableauPiles' =
                                  [spliced EXCEPT ![targetTableauIndex + 1] =
                                                      @ \o cardsToMove]
                            /\ call' = returned("moveTableauCardsToAnotherTableau",
                                                TRUE)
    /\ phase' = played
    /\ lastReset' = <<>>
    /\ UNCHANGED tableauContainers
    /\ UNCHANGED <<drawPile, discardPile, foundation, faceUp>>

\* a slip: the check that the card is visible to the player is left out
moveTableauCardsToAnotherTableau_movesHidden(initialTableauIndex, cardIndex, targetTableauIndex) ==
    /\ IF ~ pileDefined(initialTableauIndex) \/ ~ pileDefined(targetTableauIndex)
       THEN /\ call' = returned("moveTableauCardsToAnotherTableau", FALSE)
            /\ UNCHANGED tableauPiles
       ELSE LET initialTableauPile == tableauPiles[initialTableauIndex + 1]
                targetTableauPile == tableauPiles[targetTableauIndex + 1]
            IN IF cardIndex \notin 0..(Len(initialTableauPile) - 1)
               THEN /\ call' = returned("moveTableauCardsToAnotherTableau", FALSE)
                    /\ UNCHANGED tableauPiles
               ELSE LET card == initialTableauPile[cardIndex + 1] IN
                    IF ~ isValidMoveToAddCardToTableau(card, targetTableauPile)
                    THEN /\ call' = returned("moveTableauCardsToAnotherTableau",
                                             FALSE)
                         /\ UNCHANGED tableauPiles
                    ELSE LET cardsToMove ==
                                 SubSeq(initialTableauPile, cardIndex + 1,
                                        Len(initialTableauPile))
                             spliced == [tableauPiles EXCEPT
                                 ![initialTableauIndex + 1] =
                                     SubSeq(initialTableauPile, 1, cardIndex)]
                         IN /\ tableauPiles' =
                                  [spliced EXCEPT ![targetTableauIndex + 1] =
                                                      @ \o cardsToMove]
                            /\ call' = returned("moveTableauCardsToAnotherTableau",
                                                TRUE)
    /\ phase' = played
    /\ lastReset' = <<>>
    /\ UNCHANGED tableauContainers
    /\ UNCHANGED <<drawPile, discardPile, foundation, faceUp>>

moveTableauCardsToAnotherTableau(initialTableauIndex, cardIndex, targetTableauIndex) ==
    /\ IF ~ pileDefined(initialTableauIndex) \/ ~ pileDefined(targetTableauIndex)
       THEN /\ call' = returned("moveTableauCardsToAnotherTableau", FALSE)
            /\ UNCHANGED tableauPiles
       ELSE LET initialTableauPile == tableauPiles[initialTableauIndex + 1]
                targetTableauPile == tableauPiles[targetTableauIndex + 1]
            IN IF cardIndex \notin 0..(Len(initialTableauPile) - 1)
               THEN /\ call' = returned("moveTableauCardsToAnotherTableau", FALSE)
                    /\ UNCHANGED tableauPiles
               ELSE LET card == initialTableauPile[cardIndex + 1] IN
                    IF \/ ~ faceUp[card]
                       \/ ~ isValidMoveToAddCardToTableau(card, targetTableauPile)
                    THEN /\ call' = returned("moveTableauCardsToAnotherTableau",
                                             FALSE)
                         /\ UNCHANGED tableauPiles
                    ELSE LET cardsToMove ==
                                 SubSeq(initialTableauPile, cardIndex + 1,
                                        Len(initialTableauPile))
                             spliced == [tableauPiles EXCEPT
                                 ![initialTableauIndex + 1] =
                                     SubSeq(initialTableauPile, 1, cardIndex)]
                         IN /\ tableauPiles' =
                                  [spliced EXCEPT ![targetTableauIndex + 1] =
                                                      @ \o cardsToMove]
                            /\ call' = returned("moveTableauCardsToAnotherTableau",
                                                TRUE)
    /\ phase' = played
    /\ lastReset' = <<>>
    /\ UNCHANGED tableauContainers
    /\ UNCHANGED <<drawPile, discardPile, foundation, faceUp>>

\* a slip: the card is popped off the pile before the move is validated
moveTableauCardToFoundation_popsFirst(tableauIndex) ==
    /\ IF ~ pileDefined(tableauIndex)
       THEN /\ call' = returned("moveTableauCardToFoundation", FALSE)
            /\ UNCHANGED <<tableauPiles, foundation>>
       ELSE LET tableauPile == tableauPiles[tableauIndex + 1] IN
            IF Len(tableauPile) = 0
            THEN /\ call' = returned("moveTableauCardToFoundation", FALSE)
                 /\ UNCHANGED <<tableauPiles, foundation>>
            ELSE LET card == tableauPile[Len(tableauPile)] IN
                 /\ tableauPiles' =
                      [tableauPiles EXCEPT ![tableauIndex + 1] = pop(tableauPile)]
                 /\ IF ~ isValidMoveToAddCardToFoundation(card)
                    THEN /\ call' = returned("moveTableauCardToFoundation", FALSE)
                         /\ UNCHANGED foundation
                    ELSE /\ foundation' = addCardToFoundation(card)
                         /\ call' = returned("moveTableauCardToFoundation", TRUE)
    /\ phase' = played
    /\ lastReset' = <<>>
    /\ UNCHANGED tableauContainers
    /\ UNCHANGED <<drawPile, discardPile, faceUp>>

moveTableauCardToFoundation(tableauIndex) ==
    /\ IF ~ pileDefined(tableauIndex)
       THEN /\ call' = returned("moveTableauCardToFoundation", FALSE)
            /\ UNCHANGED <<tableauPiles, foundation>>
       ELSE LET tableauPile == tableauPiles[tableauIndex + 1] IN
            IF Len(tableauPile) = 0
            THEN /\ call' = returned("moveTableauCardToFoundation", FALSE)
                 /\ UNCHANGED <<tableauPiles, foundation>>
            ELSE LET card == tableauPile[Len(tableauPile)] IN
                 IF ~ isValidMoveToAddCardToFoundation(card)
                 THEN /\ call' = returned("moveTableauCardToFoundation", FALSE)
                      /\ UNCHANGED <<tableauPiles, foundation>>
                 ELSE /\ foundation' = addCardToFoundation(card)
                      /\ tableauPiles' =
                           [tableauPiles EXCEPT ![tableauIndex + 1] =
                                                    pop(tableauPile)]
                      /\ call' = returned("moveTableauCardToFoundation", TRUE)
    /\ phase' = played
    /\ lastReset' = <<>>
    /\ UNCHANGED tableauContainers
    /\ UNCHANGED <<drawPile, discardPile, faceUp>>

\* the tableau indices and card indices a caller passes
TableauArgs == (0 - 1)..NumPiles
CardIndexArgs == (0 - 1)..(NumPiles + MaxValue - 1)

Next ==
    \/ newGame
    \/ drawCard
    \/ shuffleDiscardPile
    \/ playDiscardPileCardToFoundation
    \/ \E t \in TableauArgs : playDiscardPileCardToTableau(t)
    \/ \E i \in TableauArgs : flipTopTableauCard(i)
    \/ \E i \in TableauArgs, c \in CardIndexArgs, t \in TableauArgs :
           moveTableauCardsToAnotherTableau(i, c, t)
    \/ \E i \in TableauArgs : moveTableauCardToFoundation(i)

Spec == Init /\ [][Next]_vars

\* ------------------------------------------------------ one game, any deal
\* Math.random() in the shuffle of the game's deal is one of k / DealGrain,
\* which reaches every swap partner of a deck of DealGrain + 1 cards
DealGrain == 5

\* new Solitaire() and newGame(): the deal of any deck Deck.reset can leave
GameInit ==
    \E d \in shuffleArray([k \in 1..NumCards |-> k - 1], DealGrain) :
      \E st \in {deal([draw |-> d, face |-> [c \in Cards |-> FALSE],
                       tab |-> emptyTableau, thrown |-> FALSE],
                      0, firstPile(0))} :
        /\ lastReset = <<[drawPile |-> d, discardPile |-> <<>>,
                          faceUp |-> [c \in Cards |-> FALSE]]>>
        /\ tableauContainers = <<>>
        /\ drawPile = st.draw
        /\ discardPile = <<>>
        /\ tableauPiles = st.tab
        /\ foundation = [s \in Suits |-> 0]
        /\ faceUp = st.face
        /\ call = [op |-> "newGame", ret |-> "void"]
        /\ phase = "firstGame"

\* the action methods, called in any order with any arguments
GameNext ==
    \/ drawCard
    \/ shuffleDiscardPile
    \/ playDiscardPileCardToFoundation
    \/ \E t \in TableauArgs : playDiscardPileCardToTableau(t)
    \/ \E i \in TableauArgs : flipTopTableauCard(i)
    \/ \E i \in TableauArgs, c \in CardIndexArgs, t \in TableauArgs :
           moveTableauCardsToAnotherTableau(i, c, t)
    \/ \E i \in TableauArgs : moveTableauCardToFoundation(i)

GameSpec == GameInit /\ [][GameNext]_vars

\* ------------------------------------------------- the GameScene handlers
\* SUIT_FRAMES: the first frame of each suit in the card spritesheet, a suit
\* taking as many frames as it has values
SUIT_FRAMES(s) ==
    CASE s = "HEART" -> 2 * MaxValue
      [] s = "DIAMOND" -> MaxValue
      [] s = "SPADE" -> 3 * MaxValue
      [] s = "CLUB" -> 0

\* the frame after the last card's: the back of a card
CARD_BACK_FRAME == 4 * MaxValue

\* #getCardFrame(data)
getCardFrame(card) == SUIT_FRAMES(suit(card)) + value(card) - 1

\* #createCard: a card game object showing the back of a card, with its data
createCard(draggable, cardIndex, pileIndex) ==
    [frame |-> CARD_BACK_FRAME, draggable |-> draggable,
     cardIndex |-> cardIndex, pileIndex |-> pileIndex]

\* #createTableauPiles: one container per pile of the tableau tab, one game
\* object per card, a face-up card's showing its frame and draggable
createTableauPiles(tab, face) ==
    [p \in 1..Len(tab) |->
        [k \in 1..Len(tab[p]) |->
            IF face[tab[p][k]]
            THEN [createCard(FALSE, k - 1, p - 1) EXCEPT
                      !.frame = getCardFrame(tab[p][k]), !.draggable = TRUE]
            ELSE createCard(FALSE, k - 1, p - 1)]]

\* create(): new Solitaire() and newGame()
SceneInit ==
    \E deck \in reset([c \in Cards |-> FALSE]) :
      \E st \in {deal([draw |-> deck.drawPile, face |-> deck.faceUp,
                       tab |-> emptyTableau, thrown |-> FALSE],
                      0, firstPile(0))} :
        /\ lastReset = <<deck>>
        /\ drawPile = st.draw
        /\ discardPile = deck.discardPile
        /\ tableauPiles = st.tab
        /\ foundation = [s \in Suits |-> 0]
        /\ faceUp = st.face
        /\ call = [op |-> "newGame", ret |-> "void"]
        /\ phase = "firstGame"
        /\ tableauContainers = createTableauPiles(st.tab, st.face)

\* a slip: the click draws a card whenever a pile of the stock holds a card
drawZoneClick_alwaysDraws ==
    IF Len(drawPile) = 0 /\ Len(discardPile) = 0
    THEN UNCHANGED vars
    ELSE drawCard

\* the POINTER_DOWN handler of the draw zone
drawZoneClick ==
    IF Len(drawPile) = 0 /\ Len(discardPile) = 0
    THEN UNCHANGED vars
    ELSE IF Len(drawPile) = 0
         THEN shuffleDiscardPile
         ELSE drawCard

\* the card game objects a player can drag: the top game object of the
\* discard pile (created draggable, no pileIndex), and every draggable game
\* object of a tableau container, with its pileIndex and cardIndex data and
\* the container and place that hold it
GameObjects ==
    {[discard |-> TRUE, pileIndex |-> 0, cardIndex |-> 0,
      container |-> 0, at |-> 0]}
    \cup UNION {{[discard |-> FALSE,
                  pileIndex |-> tableauContainers[p][k].pileIndex,
                  cardIndex |-> tableauContainers[p][k].cardIndex,
                  container |-> p - 1, at |-> k - 1] :
                     k \in {n \in 1..Len(tableauContainers[p]) :
                                tableauContainers[p][n].draggable}} :
                    p \in 1..Len(tableauContainers)}

\* Container.removeAt(index)
removeAt(list, index) ==
    SubSeq(list, 1, index) \o SubSeq(list, index + 2, Len(list))

\* gameObject.destroy(): the game object leaves the container that holds it
destroy(containers, gameObject) ==
    [containers EXCEPT ![gameObject.container + 1] =
                           removeAt(@, gameObject.at)]

\* the game objects once #handleRevealingNewTableauCards has run on the
\* tableau tab: when flipTopTableauCard flips the top card, the game object at
\* tableauPile.length - 1 shows its frame and becomes draggable
revealGameObject(containers, tableauPileIndex, tab) ==
    LET tableauPile == tab[tableauPileIndex + 1]
        flipTableauCard ==
            IF Len(tableauPile) = 0 THEN FALSE
            ELSE ~ faceUp[tableauPile[Len(tableauPile)]]
    IN IF flipTableauCard /\ Len(tableauPile) <= Len(containers[tableauPileIndex + 1])
       THEN [containers EXCEPT ![tableauPileIndex + 1][Len(tableauPile)] =
                [@ EXCEPT !.frame = getCardFrame(tableauPile[Len(tableauPile)]),
                          !.draggable = TRUE]]
       ELSE containers

\* #handleRevealingNewTableauCards(tableauPileIndex) once an accepted move
\* has left the tableau tab and the foundations fnd; containers is what the
\* handler leaves of the game objects
handleRevealingNewTableauCards(tableauPileIndex, tab, fnd, containers) ==
    LET tableauPile == tab[tableauPileIndex + 1]
        flipTableauCard ==
            IF Len(tableauPile) = 0 THEN FALSE
            ELSE ~ faceUp[tableauPile[Len(tableauPile)]]
    IN /\ tableauPiles' = tab
       /\ foundation' = fnd
       /\ faceUp' = IF flipTableauCard
                    THEN flip(faceUp, tableauPile[Len(tableauPile)])
                    ELSE faceUp
       /\ call' = returned("flipTopTableauCard", flipTableauCard)
       /\ phase' = played
       /\ lastReset' = <<>>
       /\ tableauContainers' = containers
       /\ UNCHANGED <<drawPile, discardPile>>

\* #handleMoveCardToFoundation: a card game object dropped on the
\* foundation zone; after an accepted move of a tableau card the pile is
\* revealed and then the dragged game object destroyed
handleMoveCardToFoundation(gameObject) ==
    IF gameObject.discard
    THEN playDiscardPileCardToFoundation
    ELSE LET tableauPileIndex == gameObject.pileIndex
             tableauPile == tableauPiles[tableauPileIndex + 1]
             isValidMove ==
                 IF Len(tableauPile) = 0 THEN FALSE
                 ELSE isValidMoveToAddCardToFoundation(
                          tableauPile[Len(tableauPile)])
             tab == [tableauPiles EXCEPT ![tableauPileIndex + 1] =
                                             pop(tableauPile)]
         IN IF ~ isValidMove
            THEN moveTableauCardToFoundation(tableauPileIndex)
            ELSE handleRevealingNewTableauCards(
                     tableauPileIndex,
                     tab,
                     addCardToFoundation(tableauPile[Len(tableauPile)]),
                     destroy(revealGameObject(tableauContainers,
                                              tableauPileIndex, tab),
                             gameObject))

RECURSIVE moveGameObjects(_, _, _, _, _, _, _)
\* the loop of #handleMoveCardTableau from its pass i: the game object at
\* tableauCardIndex leaves the container of pile from for the end of that of
\* pile to, its data set to its new place; a pass that finds no game object
\* at tableauCardIndex ends the loop
moveGameObjects(containers, from, tableauCardIndex, to, originalTargetPileSize, i, numberOfCardsToMove) ==
    IF i > numberOfCardsToMove \/ tableauCardIndex >= Len(containers[from + 1])
    THEN containers
    ELSE LET cardGameObject == containers[from + 1][tableauCardIndex + 1]
             removed == [containers EXCEPT ![from + 1] =
                                               removeAt(@, tableauCardIndex)]
             added == [removed EXCEPT ![to + 1] =
                          Append(@, [cardGameObject EXCEPT
                                        !.cardIndex = originalTargetPileSize + i,
                                        !.pileIndex = to])]
         IN moveGameObjects(added, from, tableauCardIndex, to,
                            originalTargetPileSize, i + 1, numberOfCardsToMove)

\* #getNumberOfCardsToMoveAsPartOfStack
getNumberOfCardsToMoveAsPartOfStack(tableauPileIndex, cardIndex) ==
    (Len(tableauContainers[tableauPileIndex + 1]) - 1) - cardIndex

\* #handleMoveCardTableau: a card game object dropped on the zone of the
\* tableau pile targetTableauPileIndex. A card accepted from the discard pile
\* gets a new draggable game object at the end of the target container, with
\* the frame of the dragged one, which shows the top card of the discard pile
handleMoveCardTableau(gameObject, targetTableauPileIndex) ==
    LET originalTargetPileSize ==
            Len(tableauContainers[targetTableauPileIndex + 1])
    IN
    IF gameObject.discard
    THEN LET isValidMove ==
                 IF Len(discardPile) = 0 THEN FALSE
                 ELSE isValidMoveToAddCardToTableau(
                          discardPile[Len(discardPile)],
                          tableauPiles[targetTableauPileIndex + 1])
         IN IF ~ isValidMove
            THEN playDiscardPileCardToTableau(targetTableauPileIndex)
            ELSE LET card == discardPile[Len(discardPile)] IN
                 /\ tableauPiles' =
                      [tableauPiles EXCEPT ![targetTableauPileIndex + 1] =
                                               Append(@, card)]
                 /\ discardPile' = pop(discardPile)
                 /\ call' = returned("playDiscardPileCardToTableau", TRUE)
                 /\ phase' = played
                 /\ lastReset' = <<>>
                 /\ tableauContainers' =
                      [tableauContainers EXCEPT ![targetTableauPileIndex + 1] =
                          Append(@, [createCard(TRUE, originalTargetPileSize,
                                                targetTableauPileIndex)
                                        EXCEPT !.frame = getCardFrame(card)])]
                 /\ UNCHANGED <<drawPile, foundation, faceUp>>
    ELSE LET tableauPileIndex == gameObject.pileIndex
             tableauCardIndex == gameObject.cardIndex
             initialTableauPile == tableauPiles[tableauPileIndex + 1]
             isValidMove ==
                 IF tableauCardIndex \notin 0..(Len(initialTableauPile) - 1)
                 THEN FALSE
                 ELSE /\ faceUp[initialTableauPile[tableauCardIndex + 1]]
                      /\ isValidMoveToAddCardToTableau(
                             initialTableauPile[tableauCardIndex + 1],
                             tableauPiles[targetTableauPileIndex + 1])
             spliced == [tableauPiles EXCEPT ![tableauPileIndex + 1] =
                             SubSeq(initialTableauPile, 1, tableauCardIndex)]
             tab == [spliced EXCEPT ![targetTableauPileIndex + 1] =
                        @ \o SubSeq(initialTableauPile, tableauCardIndex + 1,
                                    Len(initialTableauPile))]
         IN IF ~ isValidMove
            THEN moveTableauCardsToAnotherTableau(
                     tableauPileIndex, tableauCardIndex, targetTableauPileIndex)
            ELSE handleRevealingNewTableauCards(
                     tableauPileIndex,
                     tab,
                     foundation,
                     revealGameObject(
                         moveGameObjects(
                             tableauContainers, tableauPileIndex,
                             tableauCardIndex, targetTableauPileIndex,
                             originalTargetPileSize, 0,
                             getNumberOfCardsToMoveAsPartOfStack(
                                 tableauPileIndex, tableauCardIndex)),
                         tableauPileIndex, tab))

SceneNext ==
    \/ drawZoneClick
    \/ \E gameObject \in GameObjects : handleMoveCardToFoundation(gameObject)
    \/ \E gameObject \in GameObjects, tableauIndex \in 0..(NumPiles - 1) :
           handleMoveCardTableau(gameObject, tableauIndex)

SceneSpec == SceneInit /\ [][SceneNext]_vars

\* ------------------------------------- the stock methods as functions
\* drawCard() on the stock st = [draw, discard, face]: the stock it leaves
\* and what it returns
drawCardOn(st) ==
    IF st.draw = <<>>
    THEN [draw |-> st.draw, discard |-> st.discard, face |-> st.face,
          ret |-> FALSE]
    ELSE LET card == Head(st.draw) IN
         [draw |-> Tail(st.draw),
          discard |-> Append(st.discard, card),
          face |-> flip(st.face, card),
          ret |-> TRUE]

\* shuffleDiscardPile() on the stock st
shuffleDiscardPileOn(st) ==
    IF Len(st.draw) # 0
    THEN [draw |-> st.draw, discard |-> st.discard, face |-> st.face,
          ret |-> FALSE]
    ELSE LET deck == shuffleInDiscardPile(st.draw, st.discard, st.face) IN
         [draw |-> deck.draw, discard |-> <<>>, face |-> deck.face,
          ret |-> TRUE]

\* ------------------------------------------------- Deck.shuffle on its own
\* the longest draw pile Deck.shuffle is applied to below
ShuffleLen == 4

\* the draw piles of at most ShuffleLen distinct cards
drawPiles ==
    UNION {{d \in [1..n -> Cards] : \A a, b \in 1..n : d[a] = d[b] => a = b} :
               n \in 0..ShuffleLen}

ShuffleInit ==
    /\ drawPile \in drawPiles
    /\ discardPile = <<>>
    /\ tableauPiles = emptyTableau
    /\ foundation = [s \in Suits |-> 0]
    /\ faceUp = [c \in Cards |-> FALSE]
    /\ call = [op |-> "constructor", ret |-> "void"]
    /\ phase = "constructed"
    /\ lastReset = <<>>
    /\ tableauContainers = <<>>

\* Deck.shuffle: shuffleArray(this.#drawPile), Math.random() being any of
\* ShuffleLen evenly spaced values, which reach every index below i
shuffleDrawPile ==
    /\ drawPile' \in shuffleArray(drawPile, ShuffleLen)
    /\ call' = [op |-> "shuffle", ret |-> "void"]
    /\ UNCHANGED <<discardPile, tableauPiles, foundation, faceUp, phase,
                   lastReset, tableauContainers>>

\* Deck.reset on its own: the discard pile emptied, the draw pile a copy of
\* #cards in creation order, then shuffled; Math.random() is any of DealGrain
\* evenly spaced values
resetDeck ==
    /\ drawPile' \in shuffleArray([k \in 1..NumCards |-> k - 1], DealGrain)
    /\ discardPile' = <<>>
    /\ call' = [op |-> "reset", ret |-> "void"]
    /\ UNCHANGED <<tableauPiles, foundation, faceUp, phase, lastReset,
                   tableauContainers>>

ShuffleNext ==
    \/ shuffleDrawPile
    \/ resetDeck

ShuffleSpec == ShuffleInit /\ [][ShuffleNext]_vars

\* ================================================================ claims
Piles == 0..(NumPiles - 1)
inGame == phase \in {"firstGame", "laterGame"}
top(array) == array[Len(array)]
occurrences(array, c) == Cardinality({k \in 1..Len(array) : array[k] = c})

RECURSIVE tableauOccurrences(_, _)
\* how often card c occurs in the tableau piles 0 .. p - 1
tableauOccurrences(p, c) ==
    IF p = 0 THEN 0
    ELSE occurrences(tableauPiles[p], c) + tableauOccurrences(p - 1, c)

\* the number of places card c is in
places(c) ==
    occurrences(drawPile, c) + occurrences(discardPile, c)
    + tableauOccurrences(NumPiles, c)
    + (IF value(c) <= foundation[suit(c)] THEN 1 ELSE 0)

\* C1: after newGame(), whatever methods are called, every card is in exactly
\* one place: drawPile, discardPile, one tableau pile, or its suit's
\* foundation (its value is at most the foundation's value).
C1_CardConservation == inGame => \A c \in Cards : places(c) = 1

C1_Witness ==
    /\ phase = "laterGame"
    /\ call = returned("moveTableauCardToFoundation", TRUE)
    /\ drawPile # <<>>
    /\ discardPile # <<>>

\* the cards newGame deals to the tableau
dealt == (NumPiles * (NumPiles + 1)) \div 2

\* C2: after every newGame(), tableau pile p holds p + 1 cards, drawPile holds
\* the rest of the deck (24 of 52 in the source), discardPile is empty and
\* every foundation value is 0.
C2_NewGameLayout ==
    call.op = "newGame" =>
        /\ \A p \in Piles : Len(tableauPiles[p + 1]) = p + 1
        /\ Len(drawPile) = NumCards - dealt
        /\ discardPile = <<>>
        /\ \A s \in Suits : foundation[s] = 0

\* newGame() called after cards were drawn, flipped or played
C2_Witness ==
    /\ call.op = "newGame"
    /\ phase = "laterGame"
    /\ \E c \in Cards : lastReset[1].faceUp[c]

\* C3: after every newGame(), also one called after earlier play, in each
\* tableau pile exactly the top card is face-up.
C3_NewGameFaces ==
    call.op = "newGame" =>
        \A p \in Piles :
            \A k \in 1..Len(tableauPiles[p + 1]) :
                faceUp[tableauPiles[p + 1][k]] <=> k = Len(tableauPiles[p + 1])

\* C4: immediately after any Deck.reset(), drawPile holds every card once,
\* discardPile is empty and every card is face-down.
C4_ResetAllFaceDown ==
    Len(lastReset) = 1 =>
        /\ Len(lastReset[1].drawPile) = NumCards
        /\ \A c \in Cards : occurrences(lastReset[1].drawPile, c) = 1
        /\ lastReset[1].discardPile = <<>>
        /\ \A c \in Cards : ~ lastReset[1].faceUp[c]

\* what a play of card to its foundation must return and do
foundationOutcome(card) ==
    /\ call'.ret = "true" <=> value(card) = foundation[suit(card)] + 1
    /\ call'.ret = "true" =>
          /\ foundation'[suit(card)] = foundation[suit(card)] + 1
          /\ \A s \in Suits \ {suit(card)} : foundation'[s] = foundation[s]

\* C5: playDiscardPileCardToFoundation() (top discard card) and
\* moveTableauCardToFoundation(i) (top card of a non-empty pile i) return true
\* if and only if the card's value is its suit's foundation value + 1; on
\* success that foundation grows by 1 and the others are unchanged.
C5_FoundationLegality ==
    [][/\ (playDiscardPileCardToFoundation /\ discardPile # <<>>)
            => foundationOutcome(top(discardPile))
       /\ \A i \in Piles :
            (moveTableauCardToFoundation(i) /\ tableauPiles[i + 1] # <<>>)
                => foundationOutcome(top(tableauPiles[i + 1]))]_vars

\* the King of a suit was played on the Ace of its foundation
C5_Witness ==
    /\ call.ret = "true"
    /\ call.op \in {"playDiscardPileCardToFoundation",
                    "moveTableauCardToFoundation"}
    /\ \E s \in Suits : foundation[s] = MaxValue
    /\ \E s \in Suits : foundation[s] = 0

\* the tableau rule: a King on an empty pile, or one less than and of the
\* other colour than the top card
stacks(card, tableauPile) ==
    \/ tableauPile = <<>> /\ value(card) = MaxValue
    \/ /\ tableauPile # <<>>
       /\ color(top(tableauPile)) # color(card)
       /\ value(top(tableauPile)) = value(card) + 1

\* C6 as stated, in a game started by newGame() on a fresh Solitaire (where
\* every face is as the deal and the play left it): a placement by
\* playDiscardPileCardToTableau or by moveTableauCardsToAnotherTableau (the
\* card at cardIndex) is accepted if and only if the tableau rule holds of
\* the card and the target pile.
C6_TableauLegality ==
    [][phase = "firstGame" =>
       /\ \A t \in Piles :
            (playDiscardPileCardToTableau(t) /\ discardPile # <<>>)
                => (call'.ret = "true"
                        <=> stacks(top(discardPile), tableauPiles[t + 1]))
       /\ \A i \in Piles, t \in Piles :
            \A c \in 0..(Len(tableauPiles[i + 1]) - 1) :
                moveTableauCardsToAnotherTableau(i, c, t)
                    => (call'.ret = "true"
                            <=> stacks(tableauPiles[i + 1][c + 1],
                                       tableauPiles[t + 1]))]_vars

\* C6 amended: as C6, but moveTableauCardsToAnotherTableau accepts if and
\* only if the tableau rule holds and the card at cardIndex is face-up.
C6_TableauLegalityFaceUp ==
    [][/\ \A t \in Piles :
            (playDiscardPileCardToTableau(t) /\ discardPile # <<>>)
                => (call'.ret = "true"
                        <=> stacks(top(discardPile), tableauPiles[t + 1]))
       /\ \A i \in Piles, t \in Piles :
            \A c \in 0..(Len(tableauPiles[i + 1]) - 1) :
                moveTableauCardsToAnotherTableau(i, c, t)
                    => (call'.ret = "true"
                            <=> /\ faceUp[tableauPiles[i + 1][c + 1]]
                                /\ stacks(tableauPiles[i + 1][c + 1],
                                          tableauPiles[t + 1]))]_vars

\* a move put a run of two cards on another pile
C6_Witness ==
    /\ call = returned("moveTableauCardsToAnotherTableau", TRUE)
    /\ \E p \in Piles :
          /\ Len(tableauPiles[p + 1]) >= 2
          /\ value(top(tableauPiles[p + 1])) = 1
    /\ \E p \in Piles : tableauPiles[p + 1] = <<>>

\* face-down cards first, then face-up cards that descend by one and
\* change colour at every step
ordered(tableauPile) ==
    \A k \in 1..(Len(tableauPile) - 1) :
        /\ faceUp[tableauPile[k]] => faceUp[tableauPile[k + 1]]
        /\ (faceUp[tableauPile[k]] /\ faceUp[tableauPile[k + 1]]) =>
              /\ value(tableauPile[k + 1]) = value(tableauPile[k]) - 1
              /\ color(tableauPile[k + 1]) # color(tableauPile[k])

\* C7: in a game started by newGame() on a fresh Solitaire and continued
\* without newGame, every tableau pile is a face-down prefix followed by a
\* face-up run that descends by one and alternates colour.
C7_TableauInvariant ==
    phase = "firstGame" => \A p \in Piles : ordered(tableauPiles[p + 1])

\* a face-up run of two cards on a face-down card, reached by a placement
C7_Witness ==
    /\ phase = "firstGame"
    /\ call.ret = "true"
    /\ call.op \in {"playDiscardPileCardToTableau",
                    "moveTableauCardsToAnotherTableau"}
    /\ \E p \in Piles :
          /\ Len(tableauPiles[p + 1]) >= 3
          /\ ~ faceUp[tableauPiles[p + 1][1]]
          /\ faceUp[tableauPiles[p + 1][2]]

\* C8: drawCard() returns true exactly when drawPile is non-empty; on success
\* the front card of drawPile becomes the top of discardPile and is face-up,
\* drawPile keeps the rest in order, tableau and foundations are unchanged.
C8_DrawCard ==
    [][call'.op = "drawCard" =>
          /\ call'.ret = "true" <=> drawPile # <<>>
          /\ call'.ret = "true" =>
                /\ discardPile' = Append(discardPile, Head(drawPile))
                /\ faceUp'[Head(drawPile)]
                /\ drawPile' = Tail(drawPile)
                /\ UNCHANGED <<tableauPiles, foundation>>]_vars

\* C9: shuffleDiscardPile() returns false if and only if drawPile is
\* non-empty, and then changes nothing.
C9_ShuffleRefused ==
    [][call'.op = "shuffleDiscardPile" =>
          /\ call'.ret = "false" <=> drawPile # <<>>
          /\ call'.ret = "false" =>
                UNCHANGED <<drawPile, discardPile, tableauPiles, foundation,
                            faceUp>>]_vars

\* shuffleDiscardPile() refused while both piles hold cards
C9_Witness ==
    /\ call = returned("shuffleDiscardPile", FALSE)
    /\ drawPile # <<>>
    /\ discardPile # <<>>
    /\ inGame

\* C10: after a successful shuffleDiscardPile(), discardPile is empty and
\* drawPile holds the former discard cards in the same order, all face-down.
C10_Recycle ==
    [][(call'.op = "shuffleDiscardPile" /\ call'.ret = "true") =>
          /\ discardPile' = <<>>
          /\ drawPile' = discardPile
          /\ \A k \in 1..Len(discardPile) : ~ faceUp'[discardPile[k]]]_vars

\* the game state proper: piles, foundations and faces
game == <<drawPile, discardPile, tableauPiles, foundation, faceUp>>

\* C11: moveTableauCardsToAnotherTableau(src, cardIndex, dst) returns false
\* and changes nothing whenever the card at cardIndex of pile src is
\* face-down, whatever dst is (an empty pile for a King and a pile whose top
\* card would accept the card included).
C11_FaceDownRefused ==
    [][\A i \in Piles, t \in TableauArgs :
          \A c \in 0..(Len(tableauPiles[i + 1]) - 1) :
              (/\ moveTableauCardsToAnotherTableau(i, c, t)
               /\ ~ faceUp[tableauPiles[i + 1][c + 1]])
                  => (call'.ret = "false" /\ UNCHANGED game)]_vars

\* a move was refused in a first game where a face-down card would stack on
\* the top card of another pile
C11_Witness ==
    /\ call = returned("moveTableauCardsToAnotherTableau", FALSE)
    /\ phase = "firstGame"
    /\ \E i \in Piles, t \in Piles :
          \E c \in 1..Len(tableauPiles[i + 1]) :
              /\ i # t
              /\ ~ faceUp[tableauPiles[i + 1][c]]
              /\ stacks(tableauPiles[i + 1][c], tableauPiles[t + 1])

\* the tableau after the cards c .. end of pile i were taken off it and then
\* put on pile t in their order
suffixMoved(i, c, t) ==
    LET removed == [tableauPiles EXCEPT ![i + 1] = SubSeq(@, 1, c)]
        run == SubSeq(tableauPiles[i + 1], c + 1, Len(tableauPiles[i + 1]))
    IN [removed EXCEPT ![t + 1] = @ \o run]

\* C12: a successful moveTableauCardsToAnotherTableau(src, cardIndex, dst)
\* removes from pile src exactly the cards at cardIndex .. end and appends
\* them to pile dst in the same order; the first cardIndex cards of src, the
\* previous content of dst, the other piles, drawPile, discardPile, the
\* foundations and every face are unchanged.
C12_MoveSuffix ==
    [][\A i \in Piles, t \in Piles :
          \A c \in 0..(Len(tableauPiles[i + 1]) - 1) :
              (moveTableauCardsToAnotherTableau(i, c, t) /\ call'.ret = "true")
                  => /\ tableauPiles' = suffixMoved(i, c, t)
                     /\ i # t =>
                           /\ Len(tableauPiles'[i + 1]) = c
                           /\ Len(tableauPiles'[t + 1]) =
                                 Len(tableauPiles[t + 1])
                                     + Len(tableauPiles[i + 1]) - c
                     /\ UNCHANGED <<drawPile, discardPile, foundation,
                                    faceUp>>]_vars

\* a run of two cards was moved to another pile
C12_Witness ==
    /\ call = returned("moveTableauCardsToAnotherTableau", TRUE)
    /\ discardPile # <<>>
    /\ \E p \in Piles :
          /\ Len(tableauPiles[p + 1]) >= 2
          /\ value(top(tableauPiles[p + 1])) = 1
          /\ value(tableauPiles[p + 1][1]) = MaxValue
          /\ faceUp[tableauPiles[p + 1][1]]

\* C13: wonGame is true if and only if every foundation value is the King's
\* (13 in the source); it is false right after newGame(), and within a game
\* it turns true only by a successful playDiscardPileCardToFoundation or
\* moveTableauCardToFoundation that plays the last missing King.
C13_WonGame ==
    [][/\ wonGame' <=> (\A s \in Suits : foundation'[s] = MaxValue)
       /\ call'.op = "newGame" => ~ wonGame'
       /\ (~ wonGame /\ wonGame') =>
             /\ call'.ret = "true"
             /\ call'.op \in {"playDiscardPileCardToFoundation",
                              "moveTableauCardToFoundation"}
             /\ \E s \in Suits :
                   /\ foundation[s] = MaxValue - 1
                   /\ foundation'[s] = MaxValue
                   /\ \A o \in Suits \ {s} :
                         foundation[o] = MaxValue /\ foundation'[o] = MaxValue
       /\ (wonGame /\ ~ wonGame') => call'.op = "newGame"]_vars

\* the game was won by the play of the last King
C13_Witness ==
    /\ wonGame
    /\ call.ret = "true"
    /\ call.op \in {"playDiscardPileCardToFoundation",
                    "moveTableauCardToFoundation"}
    /\ drawPile = <<>>
    /\ discardPile = <<>>
    /\ \A p \in Piles : tableauPiles[p + 1] = <<>>

\* the seven action methods
ActionMethods ==
    {"drawCard", "shuffleDiscardPile", "playDiscardPileCardToFoundation",
     "playDiscardPileCardToTableau", "flipTopTableauCard",
     "moveTableauCardsToAnotherTableau", "moveTableauCardToFoundation"}

\* C14: whenever one of the seven action methods returns false, drawPile,
\* discardPile, every tableau pile, every foundation value and every card's
\* face are as they were before the call.
C14_NoPartialMutation ==
    [][(call'.op \in ActionMethods /\ call'.ret = "false")
          => UNCHANGED game]_vars

\* a play of the top discard card to its foundation was refused in a game
\* with cards on every pile
C14_Witness ==
    /\ call = returned("playDiscardPileCardToFoundation", FALSE)
    /\ inGame
    /\ discardPile # <<>>
    /\ drawPile # <<>>
    /\ \A p \in Piles : tableauPiles[p + 1] # <<>>

\* cardIndex c names no card of the pile at tableau index i
noCard(i, c) ==
    IF i \in Piles THEN c \notin 0..(Len(tableauPiles[i + 1]) - 1) ELSE TRUE

\* C15: in every reachable state and for every integer argument, each of the
\* seven action methods returns true or false and never raises; a tableau
\* index outside 0 .. NumPiles - 1 (0..6 in the source) or a card index that
\* names no card of the pile always yields false: no call that did not
\* return false is a call with such an argument.
C15_Total ==
    [][/\ call'.op \in ActionMethods => call'.ret \in {"true", "false"}
       /\ call'.ret # "false" =>
             /\ \A t \in TableauArgs \ Piles :
                   /\ ~ playDiscardPileCardToTableau(t)
                   /\ ~ flipTopTableauCard(t)
                   /\ ~ moveTableauCardToFoundation(t)
             /\ \A i \in TableauArgs, c \in CardIndexArgs, t \in TableauArgs :
                   (i \notin Piles \/ t \notin Piles \/ noCard(i, c))
                       => ~ moveTableauCardsToAnotherTableau(i, c, t)]_vars

\* playDiscardPileCardToTableau was refused although the top discard card
\* stacks on every tableau pile: its index named no pile
C15_Witness ==
    /\ call = returned("playDiscardPileCardToTableau", FALSE)
    /\ phase = "firstGame"
    /\ discardPile # <<>>
    /\ \A p \in Piles : stacks(top(discardPile), tableauPiles[p + 1])

\* C16: every foundation value is in 0 .. MaxValue (0..13 in the source);
\* a call other than newGame() leaves a foundation value or raises it by
\* exactly 1; only newGame() lowers a value, and then to 0;
\* FoundationPile.addCard() adds 1 below the cap and leaves the cap as it is.
C16_FoundationMonotone ==
    [][/\ \A s \in Suits :
             /\ foundation[s] \in 0..MaxValue
             /\ foundation'[s] \in 0..MaxValue
             /\ call'.op # "newGame" =>
                   foundation'[s] \in {foundation[s], foundation[s] + 1}
             /\ foundation'[s] < foundation[s] =>
                   (call'.op = "newGame" /\ foundation'[s] = 0)
       /\ addCard(MaxValue) = MaxValue
       /\ \A v \in 0..(MaxValue - 1) : addCard(v) = v + 1]_vars

\* in a later game one foundation is complete and another holds its Ace
C16_Witness ==
    /\ phase = "laterGame"
    /\ call.ret = "true"
    /\ call.op \in {"playDiscardPileCardToFoundation",
                    "moveTableauCardToFoundation"}
    /\ \E s \in Suits : foundation[s] = MaxValue
    /\ \E s \in Suits : foundation[s] = 1 /\ MaxValue > 1

\* every ordering of the cards of array
orderings(array) ==
    {o \in [1..Len(array) -> {array[k] : k \in 1..Len(array)}] :
        \A a, b \in 1..Len(array) : o[a] = o[b] => a = b}

\* C17: for a draw pile of n distinct cards, each of its n! orderings, the
\* unchanged one included, is a possible result of one Deck.shuffle(), over
\* all choices of the random swap partners.
C17_ShuffleEveryOrdering ==
    \A o \in orderings(drawPile) : o \in shuffleArray(drawPile, ShuffleLen)

\* the number of cards the rounds before round r deal
roundStart(r) == r * NumPiles - (r * (r - 1)) \div 2

\* C18: newGame() takes the first cards of the shuffled drawPile from the
\* front, round r = 0 .. and in a round pile p = r .., so that tableau[p][r]
\* is the card that was at draw position roundStart(r) + (p - r); exactly the
\* cards with p = r are flipped; the rest of the cards stay in drawPile in
\* their shuffled order.
C18_DealOrder ==
    call.op = "newGame" =>
        LET shuffled == lastReset[1].drawPile IN
        /\ \A p \in Piles : \A r \in 0..p :
              tableauPiles[p + 1][r + 1] = shuffled[roundStart(r) + (p - r) + 1]
        /\ \A c \in Cards :
              faceUp[c] # lastReset[1].faceUp[c]
                  <=> \E p \in Piles : c = tableauPiles[p + 1][p + 1]
        /\ drawPile = SubSeq(shuffled, dealt + 1, NumCards)

\* a game dealt after one in which cards were drawn and a card was played
C18_Witness ==
    /\ call.op = "newGame"
    /\ call.ret = "void"
    /\ phase = "laterGame"
    /\ \E c \in Cards : faceUp[c] /\ \A p \in Piles : c # top(tableauPiles[p + 1])
    /\ \A p \in Piles : Len(tableauPiles[p + 1]) = p + 1

\* C19 as stated: in the deal of newGame(), tableau pile p receives
\* NumPiles - p cards (7 - p in the source).
C19_PileReceives ==
    call.op = "newGame" =>
        \A p \in Piles : Len(tableauPiles[p + 1]) = NumPiles - p

\* C19 amended: in the deal of newGame(), tableau pile p receives p + 1
\* cards; it is round r that deals NumPiles - r cards (7 - r in the source),
\* one to each of the piles r .. NumPiles - 1.
C19_RoundDeals ==
    call.op = "newGame" =>
        /\ \A p \in Piles : Len(tableauPiles[p + 1]) = p + 1
        /\ \A r \in Piles :
              {p \in Piles : Len(tableauPiles[p + 1]) > r} = r..(NumPiles - 1)

\* the first game was dealt: the last pile holds more cards than the first
C19_Witness ==
    /\ call.op = "newGame"
    /\ phase = "firstGame"
    /\ Len(tableauPiles[NumPiles]) > Len(tableauPiles[1])

\* pile i exists, holds a card and its top card is face-down
hiddenTop(i) ==
    IF i \in Piles
    THEN /\ tableauPiles[i + 1] # <<>>
         /\ ~ faceUp[top(tableauPiles[i + 1])]
    ELSE FALSE

\* C20: flipTopTableauCard(i) returns true if and only if i is a pile index
\* (0..6 in the source), pile i is not empty and its top card is face-down;
\* on success that top card becomes face-up and no other face, no pile, not
\* drawPile, discardPile or a foundation changes.
C20_FlipTop ==
    [][call'.op = "flipTopTableauCard" =>
          \A i \in TableauArgs :
              flipTopTableauCard(i) =>
                  /\ call'.ret = "true" <=> hiddenTop(i)
                  /\ call'.ret = "true" =>
                        /\ faceUp' = [faceUp EXCEPT
                                          ![top(tableauPiles[i + 1])] = TRUE]
                        /\ UNCHANGED <<drawPile, discardPile, tableauPiles,
                                       foundation>>]_vars

\* in a first game a card uncovered by a move was turned face-up
C20_Witness ==
    /\ call = returned("flipTopTableauCard", TRUE)
    /\ phase = "firstGame"
    /\ \A p \in Piles : ~ hiddenTop(p)
    /\ \E p \in Piles : Len(tableauPiles[p + 1]) < p + 1

\* C21: a successful playDiscardPileCardToTableau(t) removes exactly the top
\* card of discardPile and appends it to pile t; a successful
\* playDiscardPileCardToFoundation() removes exactly the top card of
\* discardPile; a successful moveTableauCardToFoundation(i) removes exactly
\* the top card of pile i; in each case drawPile, the rest of discardPile,
\* every other tableau pile and every face are unchanged.
C21_SingleCardMoves ==
    [][call'.ret = "true" =>
          /\ \A t \in Piles :
                playDiscardPileCardToTableau(t) =>
                    /\ discardPile = Append(discardPile', top(discardPile))
                    /\ tableauPiles' =
                          [tableauPiles EXCEPT ![t + 1] =
                                                   Append(@, top(discardPile))]
                    /\ UNCHANGED <<drawPile, faceUp, foundation>>
          /\ playDiscardPileCardToFoundation =>
                /\ discardPile = Append(discardPile', top(discardPile))
                /\ UNCHANGED <<drawPile, tableauPiles, faceUp>>
          /\ \A i \in Piles :
                moveTableauCardToFoundation(i) =>
                    /\ tableauPiles[i + 1] =
                          Append(tableauPiles'[i + 1], top(tableauPiles[i + 1]))
                    /\ \A p \in Piles \ {i} :
                          tableauPiles'[p + 1] = tableauPiles[p + 1]
                    /\ UNCHANGED <<drawPile, discardPile, faceUp>>]_vars

\* the top discard card was played onto a pile while cards stay below it in
\* discardPile
C21_Witness ==
    /\ call = returned("playDiscardPileCardToTableau", TRUE)
    /\ inGame
    /\ discardPile # <<>>

\* the stock of the current state
stock == [draw |-> drawPile, discard |-> discardPile, face |-> faceUp]

RECURSIVE drawCards(_, _)
\* drawCard() called n times on the stock st
drawCards(st, n) == IF n = 0 THEN st ELSE drawCards(drawCardOn(st), n - 1)

\* C22: from any reachable state with discardPile = S and drawPile = D,
\* drawCard() called |D| times and then shuffleDiscardPile() leave
\* discardPile empty and drawPile = S followed by D; when S is empty the
\* stock and every face are as they were before.
C22_StockRoundTrip ==
    LET drawn == drawCards(stock, Len(drawPile))
        after == shuffleDiscardPileOn(drawn)
    IN /\ drawn.draw = <<>>
       /\ drawn.discard = discardPile \o drawPile
       /\ after.ret
       /\ after.discard = <<>>
       /\ after.draw = discardPile \o drawPile
       /\ discardPile = <<>> =>
             (after.draw = drawPile /\ after.face = faceUp)

\* a game in which a card was drawn and both piles of the stock hold cards
C22_Witness ==
    /\ call = returned("drawCard", TRUE)
    /\ inGame
    /\ Len(drawPile) >= 2
    /\ discardPile # <<>>

\* C23: in every reachable state every card has one of the four suits of
\* the switch, so no playDiscardPileCardToFoundation() or
\* moveTableauCardToFoundation(i), whose card is the top card of discardPile
\* or of pile i, reaches exhaustiveGuard.
C23_GuardUnreachable ==
    /\ \A c \in Cards : ~ exhaustiveGuard(c)
    /\ discardPile # <<>> => ~ exhaustiveGuard(top(discardPile))
    /\ \A p \in Piles :
          tableauPiles[p + 1] # <<>> => ~ exhaustiveGuard(top(tableauPiles[p + 1]))
    /\ call.ret # "throws"

\* in a first game a card of every suit in play went through the switch to
\* its foundation
C23_Witness ==
    /\ phase = "firstGame"
    /\ call = returned("moveTableauCardToFoundation", TRUE)
    /\ \A s \in Suits : foundation[s] >= 1

\* C24: on a click of the draw zone the scene does nothing when drawPile
\* and discardPile are both empty, calls shuffleDiscardPile() when only
\* drawPile is empty and calls drawCard() otherwise; over any clicks and
\* drops no drawCard() or shuffleDiscardPile() call returns false.
C24_ClickDispatch ==
    [][/\ drawZoneClick =>
             /\ (drawPile = <<>> /\ discardPile # <<>>) =>
                   call'.op = "shuffleDiscardPile"
             /\ drawPile # <<>> => call'.op = "drawCard"
       /\ call'.op \in {"drawCard", "shuffleDiscardPile"} =>
             call'.ret = "true"]_vars

\* a click recycled the discard pile after cards of it were played
C24_Witness ==
    /\ call = returned("shuffleDiscardPile", TRUE)
    /\ drawPile # <<>>
    /\ Len(drawPile) < NumCards - dealt

\* C25: in every reachable state after newGame() in which wonGame is true,
\* drawPile, discardPile and every tableau pile are empty.
C25_WonIsEmpty ==
    (inGame /\ wonGame) =>
        /\ drawPile = <<>>
        /\ discardPile = <<>>
        /\ \A p \in Piles : tableauPiles[p + 1] = <<>>

\* a later game was won
C25_Witness ==
    /\ phase = "laterGame"
    /\ wonGame
    /\ call.ret = "true"

\* C26, in a game started by newGame() on a fresh Solitaire: no
\* moveTableauCardToFoundation(i) succeeds while the top card of pile i is
\* face-down (as it is right after the face-up cards of pile i were moved
\* away, before flipTopTableauCard(i)).
C26_FaceUpToFoundation ==
    [][(phase = "firstGame"
        /\ call' = returned("moveTableauCardToFoundation", TRUE)) =>
          \A i \in Piles :
              moveTableauCardToFoundation(i) =>
                  faceUp[top(tableauPiles[i + 1])]]_vars

\* C27: no playDiscardPileCardToTableau(t) and no
\* moveTableauCardsToAnotherTableau(src, cardIndex, t) succeeds while the
\* top card of the non-empty target pile t is face-down.
C27_NoStackOnFaceDown ==
    [][call'.ret = "true" =>
          \A t \in Piles :
              (/\ tableauPiles[t + 1] # <<>>
               /\ ~ faceUp[top(tableauPiles[t + 1])]) =>
                  /\ ~ playDiscardPileCardToTableau(t)
                  /\ \A i \in Piles, c \in CardIndexArgs :
                        ~ moveTableauCardsToAnotherTableau(i, c, t)]_vars

\* C28: in a game started by newGame() on a fresh Solitaire, with no
\* further newGame(), moveTableauCardsToAnotherTableau(i, cardIndex, i)
\* returns false for every pile i and every cardIndex and changes nothing.
C28_NoSelfMove ==
    [][call'.op = "moveTableauCardsToAnotherTableau" =>
          \A i \in Piles, c \in CardIndexArgs :
              moveTableauCardsToAnotherTableau(i, c, i) =>
                  (call'.ret = "false" /\ UNCHANGED game)]_vars

\* a move was refused while a pile holds a face-up run of two cards on a
\* face-down card
C28_Witness ==
    /\ call = returned("moveTableauCardsToAnotherTableau", FALSE)
    /\ \E p \in Piles :
          /\ Len(tableauPiles[p + 1]) >= 3
          /\ faceUp[tableauPiles[p + 1][Len(tableauPiles[p + 1]) - 1]]
          /\ faceUp[top(tableauPiles[p + 1])]

\* the number of cards in the stock: drawPile and discardPile
stockSize == Len(drawPile) + Len(discardPile)

\* C29: between two newGame() calls |drawPile| + |discardPile| never grows:
\* drawCard() and shuffleDiscardPile() keep it, a successful play from the
\* discard pile lowers it by exactly 1, the tableau-only methods keep it;
\* after newGame() it is at most the deck less the dealt cards (24 in the
\* source).
C29_StockShrinks ==
    [][/\ call'.op = "newGame" => stockSize' <= NumCards - dealt
       /\ call'.op # "newGame" => stockSize' <= stockSize
       /\ call'.op \in {"drawCard", "shuffleDiscardPile", "flipTopTableauCard",
                        "moveTableauCardsToAnotherTableau",
                        "moveTableauCardToFoundation"} =>
             stockSize' = stockSize
       /\ call'.op \in {"playDiscardPileCardToFoundation",
                        "playDiscardPileCardToTableau"} =>
             stockSize' = stockSize - (IF call'.ret = "true" THEN 1 ELSE 0)]_vars

\* in a later game the stock was recycled after a card of it was played
C29_Witness ==
    /\ phase = "laterGame"
    /\ call = returned("shuffleDiscardPile", TRUE)
    /\ stockSize < NumCards - dealt
    /\ stockSize > 0

\* C30: in a game started by newGame() on a fresh Solitaire, with no action
\* before it and no further newGame(), every card in drawPile is face-down
\* and every card in discardPile is face-up.
C30_StockFaces ==
    phase = "firstGame" =>
        /\ \A k \in 1..Len(drawPile) : ~ faceUp[drawPile[k]]
        /\ \A k \in 1..Len(discardPile) : faceUp[discardPile[k]]

\* the discard pile was recycled after a card of it was played
C30_Witness ==
    /\ phase = "firstGame"
    /\ call = returned("shuffleDiscardPile", TRUE)
    /\ Len(drawPile) >= 2
    /\ stockSize < NumCards - dealt
\* after is a permutation of before with no element at the index it had
displaced(before, after) ==
    /\ Len(after) = Len(before)
    /\ \A k \in 1..Len(before) : \E m \in 1..Len(after) : after[m] = before[k]
    /\ \A k \in 1..Len(before) : after[k] # before[k]

\* C31: shuffleArray never leaves an element in place: whatever the swap
\* partners, shuffling a draw pile of two or more distinct cards gives a
\* permutation of it with no card at the index it had, and after Deck.reset()
\* no card is at its creation index in the draw pile.
C31_NeverInPlace ==
    [][/\ (call'.op = "shuffle" /\ Len(drawPile) >= 2)
           => displaced(drawPile, drawPile')
       /\ call'.op = "reset"
           => displaced([k \in 1..NumCards |-> k - 1], drawPile')]_vars

\* a Deck.reset has left the whole deck in the draw pile and a
\* Deck.shuffle has then rearranged it
C31_Witness ==
    /\ call.op = "shuffle"
    /\ Len(drawPile) = NumCards
    /\ NumCards > ShuffleLen

\* the game object shows the card as the model holds it: its frame when it
\* is face up, the back of a card when it is face down
represents(cardGameObject, card) ==
    cardGameObject.frame =
        IF faceUp[card] THEN getCardFrame(card) ELSE CARD_BACK_FRAME

\* C32: scene and model stay in step on foundation drops: the card an
\* accepted drop removes from the model's tableau pile is the card of the
\* game object that was dragged and destroyed, wherever in its pile that
\* card is, so that after every handled drop the k-th game object of each
\* tableau container represents the k-th card of the model's pile.
C32_SceneInStep ==
    \A p \in 1..NumPiles :
        /\ Len(tableauContainers[p]) = Len(tableauPiles[p])
        /\ \A k \in 1..Len(tableauPiles[p]) :
               represents(tableauContainers[p][k], tableauPiles[p][k])

====
